---- MODULE Spec2Model ----
(***************************************************************************)
(* Session-authenticated project API (axum + tower-sessions + sqlx).       *)
(* State: the accounts and projects tables, the session records kept by    *)
(* the session layer, the wall clock and the last response sent.           *)
(* A table is a set of rows or a function from its primary key.            *)
(* inflight and completed follow update requests whose handlers overlap.   *)
(* One action per HTTP handler of main.rs; the store methods of store.rs   *)
(* are operators the handlers apply.                                       *)
(*                                                                         *)
(* Option<T> is modelled as a sequence: <<>> is None, <<v>> is Some(v).    *)
(* A request carries the session token it presents, 0 for no cookie.       *)
(***************************************************************************)
EXTENDS Integers, Sequences, FiniteSets, TLC

VARIABLES accounts, projects, nextId, sessions, now, resp, inflight, completed

vars == <<accounts, projects, nextId, sessions, now, resp, inflight, completed>>

\* requests a handler has accepted and not yet answered, and their outcomes
conc == <<inflight, completed>>

(* ------------------------------ bounds -------------------------------- *)
MaxTime == 10
MaxTokens == 2
MaxCounter == 2
MaxAttempts == 3
MaxInflight == 2
MaxProjects == 1

(* ------------------------- program constants -------------------------- *)
InactivitySeconds == 10
MinPasswordLen == 8

OK == 200
CREATED == 201
BAD_REQUEST == 400
UNAUTHORIZED == 401
INTERNAL_SERVER_ERROR == 500
SERVICE_UNAVAILABLE == 503

(* ------------------------------ inputs -------------------------------- *)
None == <<>>
Some(v) == <<v>>

\* an email address local@domain as <<local, domain>>
Emails == {<<"a", "x.com">>, <<"b", "x.com">>}
BadEmails == {<<"a", "">>}
Passwords == {"password123", "correcthorse"}
ShortPasswords == {"hunter2"}
Salts == {1}
Names == {"P1", "P2"}
Descriptions == {None, Some("d")}
Times == {t \in 0..MaxTime : t % (InactivitySeconds \div 2) = 0}
ProjectIds == 1..MaxProjects

(* -------------------------- Credential store -------------------------- *)
\* Argon2::hash_password(password, salt).to_string(): a PHC string
Argon2Hash(password, salt) == <<"argon2id", salt, <<salt, password>>>>

\* PasswordHash::new: the stored text parses as a PHC string
ParsesAsHash(text) == Len(text) = 3 /\ text[1] = "argon2id"

\* verify_password with its result ignored
VerifyPasswordIgnored(password, hash) == hash[1] = "argon2id"

\* Argon2::verify_password: recompute with the stored salt and compare
VerifyPassword(password, hash) == Argon2Hash(password, hash[2]) = hash

\* values of the password column no registration writes: NULL, unparsable text
CorruptPasswords == {None, <<"garbage">>}

\* SELECT password FROM accounts WHERE username = $1
RowsOf(username) == {r \in accounts : r.username = username}

\* Store::authenticate_user: "Ok" or the StoreError kind
AuthenticateUser(username, password, dbOk) ==
    IF ~dbOk THEN "SqlxError"
    ELSE IF RowsOf(username) = {} THEN "UserNotFound"
    ELSE LET hashed == (CHOOSE r \in RowsOf(username) : TRUE).password
         IN  IF hashed = None THEN "UserDataNotFound"
             ELSE IF ~ParsesAsHash(hashed) THEN "MalformedStoreHash"
             ELSE IF VerifyPassword(password, hashed) THEN "Ok"
             ELSE "IncorrectPassword"

\* the accounts table holds one row per username: a second INSERT is refused
AccountsInsertOk(username) == RowsOf(username) = {}

\* Store::register_user: "Ok" or the StoreError kind
RegisterUserResult(username, dbOk) ==
    IF dbOk /\ AccountsInsertOk(username) THEN "Ok" ELSE "SqlxError"

\* Store::register_user: the accounts table afterwards
RegisterUserTable(username, password, salt, dbOk) ==
    IF RegisterUserResult(username, dbOk) = "Ok"
    THEN accounts \cup {[username |-> username, password |-> Argon2Hash(password, salt)]}
    ELSE accounts

(* ------------------------ Error to status mapping --------------------- *)
\* impl IntoResponse for StoreError
StatusOf(kind) ==
    CASE kind \in {"UserNotFound", "IncorrectPassword"} -> UNAUTHORIZED
      [] kind \in {"UserDataNotFound", "ProjectNotFound", "MalformedStoreHash",
                   "FailedProjectCreation"} -> BAD_REQUEST
      [] kind \in {"HashError", "SqlxError"} -> INTERNAL_SERVER_ERROR

\* StoreError::InvalidInput, raised by add_user, has no arm in store.rs
InvalidInputStatus == BAD_REQUEST

Respond(op, kind) ==
    [op |-> op, kind |-> kind,
     status |-> CASE kind = "Ok" -> OK
                  [] kind = "Created" -> CREATED
                  [] kind = "InvalidInput" -> InvalidInputStatus
                  [] OTHER -> StatusOf(kind)]

\* a StoreError value: its variant and the text the variant carries, if any
StoreError(kind, detail) == [kind |-> kind, detail |-> detail]

\* thiserror's Display for StoreError, the #[error("...")] attributes
Display(err) ==
    CASE err.kind = "HashError" -> <<"Password hashing failed: ", err.detail[1]>>
      [] err.kind = "SqlxError" -> <<"Database error: ", err.detail[1]>>
      [] err.kind = "UserNotFound" -> <<"User not found">>
      [] err.kind = "ProjectNotFound" -> <<"Project not found">>
      [] err.kind = "UserDataNotFound" -> <<"User data not found: ", err.detail[1]>>
      [] err.kind = "MalformedStoreHash" -> <<"Malformed store hash">>
      [] err.kind = "IncorrectPassword" -> <<"Incorrect Password">>
      [] err.kind = "FailedProjectCreation" -> <<"Failed to create project">>

\* StoreError::into_response: the status and the JSON body {"error": ...}
IntoResponse(err) == [status |-> StatusOf(err.kind), body |-> [error |-> Display(err)]]

(* --------------------------- Session layer ---------------------------- *)
EmptyData == [user_email |-> None, counter |-> 0]

\* the load with a record still found at its expiry date
LiveAtDeadline(tok) == tok \in DOMAIN sessions /\ sessions[tok].expiry >= now

\* the session store's load: a record is found while its expiry date is ahead
Live(tok) == tok \in DOMAIN sessions /\ sessions[tok].expiry > now

\* Session as a handler sees it: sid 0 when no record could be loaded
LoadSession(tok) ==
    IF Live(tok) THEN [sid |-> tok, data |-> sessions[tok].data]
    ELSE [sid |-> 0, data |-> EmptyData]

\* the rate-limit extractor: read the counter, store counter + 1, never reject
RateLimit(sess) == [sess EXCEPT !.data.counter = @ + 1]

\* the session layer after the handler: a modified, non-empty session is saved
\* with a fresh inactivity deadline unless the response is a server error;
\* a session without id gets a new one
SaveSession(sess, status) ==
    IF sess.sid = 0 /\ sess.data = EmptyData THEN sessions
    ELSE IF status >= INTERNAL_SERVER_ERROR THEN sessions
    ELSE LET rec == [data |-> sess.data, expiry |-> now + InactivitySeconds]
         IN  IF sess.sid = 0
             THEN sessions @@ ((Cardinality(DOMAIN sessions) + 1) :> rec)
             ELSE [sessions EXCEPT ![sess.sid] = rec]

\* require_login falling back to a default principal
RequireLoginOrDefault(sess) ==
    IF sess.data.user_email = None THEN Some(<<"", "">>) ELSE sess.data.user_email

\* require_login: the principal, or None when the session has no user_email
RequireLogin(sess) == sess.data.user_email

(* --------------------------- Resource store --------------------------- *)
\* columns the INSERT of create_project leaves to the table's defaults
ColumnDefaults == [created_at |-> Some(now), last_updated |-> Some(now)]

\* Store::create_project: the projects table afterwards
CreateProjectTable(project, dbOk) ==
    IF ~dbOk THEN projects
    ELSE projects @@ (nextId :> [user_email   |-> project.user_email,
                                 name         |-> project.name,
                                 description  |-> project.description,
                                 created_at   |-> ColumnDefaults.created_at,
                                 last_updated |-> ColumnDefaults.last_updated])

\* Store::get_project_by_id: "Ok" or the StoreError kind
GetProjectById(id, dbOk) ==
    IF dbOk /\ id \in DOMAIN projects THEN "Ok" ELSE "SqlxError"

\* Store::update_project: "Ok" or the StoreError kind; name is a NOT NULL column
UpdateProjectResult(update, id, dbOk) ==
    IF dbOk /\ id \in DOMAIN projects /\ update.name # None THEN "Ok" ELSE "SqlxError"

\* Store::update_project: the projects table afterwards
UpdateProjectTable(update, id, dbOk) ==
    IF UpdateProjectResult(update, id, dbOk) = "Ok"
    THEN [projects EXCEPT ![id].name = update.name[1],
                          ![id].description = update.description,
                          ![id].last_updated = Some(update.update_timestamp)]
    ELSE projects

\* delete_project without the rows_affected check
DeleteProjectUnchecked(id, dbOk) == IF dbOk THEN "Ok" ELSE "SqlxError"

\* Store::delete_project: "Ok" or the StoreError kind
DeleteProjectResult(id, dbOk) ==
    IF ~dbOk THEN "SqlxError"
    ELSE IF id \notin DOMAIN projects THEN "ProjectNotFound"
    ELSE "Ok"

\* Store::delete_project: the projects table afterwards
DeleteProjectTable(id, dbOk) ==
    IF DeleteProjectResult(id, dbOk) = "Ok"
    THEN [i \in DOMAIN projects \ {id} |-> projects[i]]
    ELSE projects

(* ------------------------------ handlers ------------------------------ *)
\* what a handler run to completion leaves behind: the response and the tables
Outcome(r, acc, sess, table, id) ==
    [resp |-> r, accounts |-> acc, sessions |-> sess, projects |-> table, nextId |-> id]

\* the server answers one request
Serve(o) ==
    /\ resp' = o.resp
    /\ accounts' = o.accounts
    /\ sessions' = o.sessions
    /\ projects' = o.projects
    /\ nextId' = o.nextId
    /\ UNCHANGED <<now, conc>>

\* add_user: validation, then register_user
AddUserOutcome(email, password, salt, dbOk) ==
    LET valid == email[1] # "" /\ email[2] # "" /\ Len(password) >= MinPasswordLen
        kind == IF ~valid THEN "InvalidInput"
                ELSE IF RegisterUserResult(email, dbOk) = "Ok" THEN "Created"
                ELSE RegisterUserResult(email, dbOk)
    IN  Outcome(Respond("signup", kind),
                IF valid THEN RegisterUserTable(email, password, salt, dbOk) ELSE accounts,
                sessions, projects, nextId)

\* POST /signup
AddUser(email, password, salt, dbOk) == Serve(AddUserOutcome(email, password, salt, dbOk))

\* login without the session.insert of user_email
LoginWithoutInsert(tok, email, password, dbOk) ==
    LET r == Respond("login", AuthenticateUser(email, password, dbOk))
    IN  Outcome(r, accounts, SaveSession(RateLimit(LoadSession(tok)), r.status),
                projects, nextId)

\* login storing user_email before it authenticates
LoginInsertsFirst(tok, email, password, dbOk) ==
    LET sess == RateLimit(LoadSession(tok))
        r == Respond("login", AuthenticateUser(email, password, dbOk))
    IN  Outcome(r, accounts,
                SaveSession([sess EXCEPT !.data.user_email = Some(email)], r.status),
                projects, nextId)

\* login: authenticate_user, then user_email into the session
LoginOutcome(tok, email, password, dbOk) ==
    LET sess == RateLimit(LoadSession(tok))
        kind == AuthenticateUser(email, password, dbOk)
        after == IF kind = "Ok" THEN [sess EXCEPT !.data.user_email = Some(email)]
                 ELSE sess
        r == Respond("login", kind)
    IN  Outcome(r, accounts, SaveSession(after, r.status), projects, nextId)

\* POST /login
Login(tok, email, password, dbOk) == Serve(LoginOutcome(tok, email, password, dbOk))

\* logout removing the counter alone
LogoutKeepsPrincipal(tok) ==
    LET sess == RateLimit(LoadSession(tok))
        r == Respond("logout", "Ok")
    IN  Outcome(r, accounts, SaveSession([sess EXCEPT !.data.counter = 0], r.status),
                projects, nextId)

\* logout: session.clear()
LogoutOutcome(tok) ==
    LET sess == RateLimit(LoadSession(tok))
        after == [sess EXCEPT !.data = EmptyData]
        r == Respond("logout", "Ok")
    IN  Outcome(r, accounts, SaveSession(after, r.status), projects, nextId)

\* POST /logout
Logout(tok) == Serve(LogoutOutcome(tok))

\* whether require_login lets a request carrying this token through
Authed(tok) == RequireLogin(RateLimit(LoadSession(tok))) # None

\* a handler behind require_login: the store's result and tables count only
\* when the session names a principal; the rejection is IncorrectPassword
Protected(op, tok, kind, table, id) ==
    LET sess == RateLimit(LoadSession(tok))
        authed == RequireLogin(sess) # None
        r == Respond(op, IF authed THEN kind ELSE "IncorrectPassword")
    IN  Outcome(r, accounts, SaveSession(sess, r.status),
                IF authed THEN table ELSE projects,
                IF authed THEN id ELSE nextId)

\* create_project_handler
CreateProjectOutcome(tok, project, dbOk) ==
    Protected("create", tok, IF dbOk THEN "Created" ELSE "FailedProjectCreation",
              CreateProjectTable(project, dbOk), IF dbOk THEN nextId + 1 ELSE nextId)

\* POST /projects
CreateProjectHandler(tok, project, dbOk) == Serve(CreateProjectOutcome(tok, project, dbOk))

\* list_project_handler
ListProjectOutcome(tok, dbOk) ==
    Protected("list", tok, IF dbOk THEN "Ok" ELSE "ProjectNotFound", projects, nextId)

\* GET /projects
ListProjectHandler(tok, dbOk) == Serve(ListProjectOutcome(tok, dbOk))

\* get_project_by_id_handler
GetProjectByIdOutcome(tok, id, dbOk) ==
    Protected("get", tok,
              IF GetProjectById(id, dbOk) = "Ok" THEN "Ok" ELSE "ProjectNotFound",
              projects, nextId)

\* GET /projects/{id}
GetProjectByIdHandler(tok, id, dbOk) == Serve(GetProjectByIdOutcome(tok, id, dbOk))

\* update_project_handler
UpdateProjectOutcome(tok, id, update, dbOk) ==
    Protected("update", tok, UpdateProjectResult(update, id, dbOk),
              UpdateProjectTable(update, id, dbOk), nextId)

\* PUT /projects/{id}
UpdateProjectHandler(tok, id, update, dbOk) ==
    Serve(UpdateProjectOutcome(tok, id, update, dbOk))

\* delete_project_handler
DeleteProjectOutcome(tok, id, dbOk) ==
    Protected("delete", tok, DeleteProjectResult(id, dbOk),
              DeleteProjectTable(id, dbOk), nextId)

\* DELETE /projects/{id}
DeleteProjectHandler(tok, id, dbOk) == Serve(DeleteProjectOutcome(tok, id, dbOk))

\* PUT /projects/{id}, up to the call of the store: the extractors and
\* require_login have run, and a request without principal is answered at once
ReceiveUpdate(tok, id, update) ==
    LET sess == RateLimit(LoadSession(tok))
        rid == Cardinality(DOMAIN inflight \cup DOMAIN completed) + 1
    IN  /\ RequireLogin(sess) # None
        /\ inflight' = inflight @@ (rid :> [sess |-> sess, id |-> id, update |-> update,
                                            observed |-> IF id \in DOMAIN projects
                                                         THEN projects[id].last_updated
                                                         ELSE None])
        /\ UNCHANGED <<accounts, projects, nextId, sessions, now, resp, completed>>

\* PUT /projects/{id}, from the UPDATE statement to the response
ExecuteUpdate(rid, dbOk) ==
    LET r == inflight[rid]
    IN  /\ rid \in DOMAIN inflight
        /\ projects' = UpdateProjectTable(r.update, r.id, dbOk)
        /\ resp' = Respond("update", UpdateProjectResult(r.update, r.id, dbOk))
        /\ sessions' = SaveSession(r.sess, resp'.status)
        /\ completed' = completed @@
              (rid :> [id |-> r.id, update |-> r.update, observed |-> r.observed,
                       kind |-> resp'.kind, overlapped |-> DOMAIN inflight \ {rid}])
        /\ inflight' = [x \in DOMAIN inflight \ {rid} |-> inflight[x]]
        /\ UNCHANGED <<accounts, nextId, now>>

\* GET /healthz
HealthCheck(dbOk) ==
    /\ resp' = [op |-> "healthz", kind |-> IF dbOk THEN "Ok" ELSE "Unavailable",
                status |-> IF dbOk THEN OK ELSE SERVICE_UNAVAILABLE]
    /\ UNCHANGED <<accounts, projects, nextId, sessions, now, conc>>

\* time passes
Tick(d) ==
    /\ now + d <= MaxTime
    /\ now' = now + d
    /\ UNCHANGED <<accounts, projects, nextId, sessions, resp, conc>>

(* ------------------------------ bounding ------------------------------ *)
\* the requests the bounds admit: the presented token is none or an issued one,
\* the stored counter stays within the cap and tokens within MaxTokens
AdmitUpTo(tok, cap) ==
    /\ tok \in {0} \cup DOMAIN sessions
    /\ IF Live(tok) THEN sessions[tok].data.counter < cap
       ELSE Cardinality(DOMAIN sessions) < MaxTokens

Admit(tok) == AdmitUpTo(tok, MaxCounter)

NoResponse == [op |-> "none", kind |-> "Ok", status |-> OK]

AccountRow(e, p) == [username |-> e, password |-> p]

\* the account the project requests log in with
Principal == CHOOSE e \in Emails : TRUE

\* accounts registered by earlier requests
Registered == {AccountRow(e, Argon2Hash("password123", 1)) : e \in Emails}

\* a session that was logged in and has since run out
ExpiredSession(e) == [data |-> [user_email |-> Some(e), counter |-> 1], expiry |-> now]

(* --------------------------- specifications --------------------------- *)
\* registration and authentication: the database may already hold an account
\* row with a password value no registration wrote
InitAccounts ==
    /\ accounts \in {{}} \cup {{AccountRow(e, c)} : e \in Emails, c \in CorruptPasswords}
    /\ projects = <<>>
    /\ nextId = 1
    /\ sessions = <<>>
    /\ now = 0
    /\ resp = NoResponse
    /\ inflight = <<>>
    /\ completed = <<>>

NextAccounts ==
    \/ \E e \in Emails \cup BadEmails, p \in Passwords \cup ShortPasswords,
          s \in Salts, dbOk \in BOOLEAN : AddUser(e, p, s, dbOk)
    \/ \E tok \in 0..MaxTokens, e \in Emails, p \in Passwords, dbOk \in BOOLEAN :
          Admit(tok) /\ Login(tok, e, p, dbOk)
    \/ \E tok \in 0..MaxTokens : Admit(tok) /\ ListProjectHandler(tok, TRUE)
    \/ \E dbOk \in BOOLEAN : HealthCheck(dbOk)

SpecAccounts == InitAccounts /\ [][NextAccounts]_vars

\* the session life cycle over registered accounts, with time passing and the
\* database answering
InitSessions ==
    /\ accounts = Registered
    /\ projects = <<>>
    /\ nextId = 1
    /\ sessions = <<>>
    /\ now = 0
    /\ resp = NoResponse
    /\ inflight = <<>>
    /\ completed = <<>>

NextSessions ==
    \/ \E tok \in 0..MaxTokens, e \in Emails, p \in Passwords :
          Admit(tok) /\ Login(tok, e, p, TRUE)
    \/ \E tok \in {0} \cup DOMAIN sessions : Logout(tok)
    \/ \E tok \in 0..MaxTokens :
          Admit(tok) /\ ListProjectHandler(tok, TRUE)
    \/ \E d \in {InactivitySeconds \div 2, InactivitySeconds} : Tick(d)

SpecSessions == InitSessions /\ [][NextSessions]_vars

\* the project operations over registered accounts, at one instant; the
\* session store already holds a session that has run out
InitProjects ==
    /\ accounts = Registered
    /\ projects = <<>>
    /\ nextId = 1
    /\ now = InactivitySeconds \div 2
    /\ sessions = (1 :> ExpiredSession(Principal))
    /\ resp = NoResponse
    /\ inflight = <<>>
    /\ completed = <<>>

\* the instants up to the one the project requests are made at
PastTimes == {t \in Times : t <= InactivitySeconds \div 2}

\* update bodies: the reference timestamp is a past or the present instant
Patches ==
    [name : {None} \cup {Some(n) : n \in Names}, description : {None},
     update_timestamp : PastTimes]

Bodies == [user_email : Emails, name : Names, description : {None}]

NextProjects ==
    \/ \E tok \in 0..MaxTokens, e \in {Principal} :
          Admit(tok) /\ Login(tok, e, "password123", TRUE)
    \/ \E tok \in {0} \cup DOMAIN sessions : Logout(tok)
    \/ \E tok \in 0..MaxTokens, project \in Bodies, dbOk \in BOOLEAN :
          Admit(tok) /\ nextId <= MaxProjects /\ CreateProjectHandler(tok, project, dbOk)
    \/ \E tok \in 0..MaxTokens :
          Admit(tok) /\ ListProjectHandler(tok, TRUE)
    \/ \E tok \in 0..MaxTokens, id \in ProjectIds :
          Admit(tok) /\ GetProjectByIdHandler(tok, id, TRUE)
    \/ \E tok \in 0..MaxTokens, id \in ProjectIds, update \in Patches :
          Admit(tok) /\ UpdateProjectHandler(tok, id, update, TRUE)
    \/ \E tok \in 0..MaxTokens, id \in ProjectIds, dbOk \in BOOLEAN :
          Admit(tok) /\ DeleteProjectHandler(tok, id, dbOk)

SpecProjects == InitProjects /\ [][NextProjects]_vars

\* repeated login attempts over registered accounts, with time passing
NextRateLimit ==
    \/ \E tok \in 0..MaxTokens, e \in Emails, p \in Passwords, dbOk \in BOOLEAN :
          AdmitUpTo(tok, MaxAttempts) /\ Login(tok, e, p, dbOk)
    \/ \E tok \in {0} \cup DOMAIN sessions : Logout(tok)
    \/ \E d \in {InactivitySeconds \div 2, InactivitySeconds} : Tick(d)

SpecRateLimit == InitSessions /\ [][NextRateLimit]_vars

\* update requests whose handlers overlap, on a project a logged-in session
\* created earlier
InitConcurrent ==
    /\ accounts = Registered
    /\ now = InactivitySeconds \div 2
    /\ projects = (1 :> [user_email |-> Principal, name |-> "P1", description |-> None,
                         created_at |-> Some(now), last_updated |-> Some(now)])
    /\ nextId = 2
    /\ sessions = (1 :> [data |-> [user_email |-> Some(Principal), counter |-> 1],
                         expiry |-> now + InactivitySeconds])
    /\ resp = [op |-> "create", kind |-> "Created", status |-> CREATED]
    /\ inflight = <<>>
    /\ completed = <<>>

NextConcurrent ==
    \/ \E tok \in 0..MaxTokens, id \in ProjectIds, update \in Patches :
          /\ Admit(tok)
          /\ Cardinality(DOMAIN inflight \cup DOMAIN completed) < MaxInflight
          /\ ReceiveUpdate(tok, id, update)
    \/ \E rid \in 1..MaxInflight, dbOk \in BOOLEAN : ExecuteUpdate(rid, dbOk)
    \/ \E tok \in 0..MaxTokens, id \in ProjectIds :
          Admit(tok) /\ DeleteProjectHandler(tok, id, TRUE)
    \/ \E tok \in 0..MaxTokens, e \in {Principal} :
          Admit(tok) /\ Login(tok, e, "password123", TRUE)

SpecConcurrent == InitConcurrent /\ [][NextConcurrent]_vars

\* project requests of two principals, each on a live session of its own
InitOwnership ==
    /\ accounts = Registered
    /\ projects = <<>>
    /\ nextId = 1
    /\ now = InactivitySeconds \div 2
    /\ sessions = [t \in {1, 2} |->
                     [data |-> [user_email |-> Some(IF t = 1 THEN Principal
                                                   ELSE CHOOSE e \in Emails : e # Principal),
                                counter |-> 1],
                      expiry |-> now + InactivitySeconds]]
    /\ resp = [op |-> "login", kind |-> "Ok", status |-> OK]
    /\ inflight = <<>>
    /\ completed = <<>>

\* create and update bodies with and without a description
DescribedBodies == [user_email : Emails, name : Names, description : Descriptions]

DescribedPatches ==
    [name : {None} \cup {Some(n) : n \in Names}, description : Descriptions,
     update_timestamp : PastTimes]

NextOwnership ==
    \/ \E tok \in DOMAIN sessions, project \in DescribedBodies :
          /\ AdmitUpTo(tok, MaxAttempts)
          /\ nextId <= MaxProjects
          /\ CreateProjectHandler(tok, project, TRUE)
    \/ \E tok \in DOMAIN sessions, id \in ProjectIds :
          AdmitUpTo(tok, MaxAttempts) /\ GetProjectByIdHandler(tok, id, TRUE)
    \/ \E tok \in DOMAIN sessions, id \in ProjectIds, update \in DescribedPatches :
          AdmitUpTo(tok, MaxAttempts) /\ UpdateProjectHandler(tok, id, update, TRUE)
    \/ \E tok \in DOMAIN sessions, id \in ProjectIds :
          AdmitUpTo(tok, MaxAttempts) /\ DeleteProjectHandler(tok, id, TRUE)

SpecOwnership == InitOwnership /\ [][NextOwnership]_vars

\* requests spread over time on the sessions of one account, the database
\* failing now and then
NextActivity ==
    \/ \E tok \in 0..MaxTokens, dbOk \in BOOLEAN :
          Admit(tok) /\ Login(tok, Principal, "password123", dbOk)
    \/ \E tok \in 0..MaxTokens, dbOk \in BOOLEAN :
          Admit(tok) /\ ListProjectHandler(tok, dbOk)
    \/ \E tok \in 0..MaxTokens, id \in ProjectIds, dbOk \in BOOLEAN :
          Admit(tok) /\ DeleteProjectHandler(tok, id, dbOk)
    \/ \E dbOk \in BOOLEAN : HealthCheck(dbOk)
    \/ \E d \in {InactivitySeconds \div 2, InactivitySeconds} : Tick(d)

SpecActivity == InitSessions /\ [][NextActivity]_vars

\* texts of errors raised below the store: by the database driver, by Argon2
RawTexts == {"pool timed out while waiting for an open connection",
             "error returned from database: relation does not exist",
             "output size too long"}

\* the errors the store call of each endpoint can return
StoreErrorsOf(op) ==
    LET sqlx == {StoreError("SqlxError", Some(t)) : t \in RawTexts}
    IN  CASE op = "login" ->
               sqlx \cup {StoreError("UserNotFound", None),
                          StoreError("UserDataNotFound", Some("password")),
                          StoreError("MalformedStoreHash", None),
                          StoreError("IncorrectPassword", None)}
          [] op = "signup" -> sqlx \cup {StoreError("HashError", Some(t)) : t \in RawTexts}
          [] op = "delete" -> sqlx \cup {StoreError("ProjectNotFound", None)}
          [] OTHER -> sqlx

\* the error a handler hands to into_response: create, list and get replace
\* whatever the store returned, the other handlers pass it on
HandlerError(op, err) ==
    CASE op = "create" -> StoreError("FailedProjectCreation", None)
      [] op \in {"list", "get"} -> StoreError("ProjectNotFound", None)
      [] OTHER -> err

Endpoints == {"login", "signup", "create", "list", "get", "update", "delete"}

\* a request to an endpoint whose store call fails with err, the session
\* aside; completed keeps the failure raised and the response sent
FailedRequest(op, err) ==
    LET rid == Cardinality(DOMAIN completed) + 1
        sent == HandlerError(op, err)
    IN  /\ rid <= MaxInflight
        /\ resp' = Respond(op, sent.kind)
        /\ completed' = completed @@
              (rid :> [op |-> op, raised |-> err, kind |-> sent.kind,
                       response |-> IntoResponse(sent)])
        /\ UNCHANGED <<accounts, projects, nextId, sessions, now, inflight>>

NextErrors == \E op \in Endpoints : \E err \in StoreErrorsOf(op) : FailedRequest(op, err)

SpecErrors == InitSessions /\ [][NextErrors]_vars

\* signups, logins and logouts in any order
NextIdentity ==
    \/ \E e \in Emails, p \in Passwords, s \in Salts : AddUser(e, p, s, TRUE)
    \/ \E tok \in 0..MaxTokens, e \in Emails, p \in Passwords, dbOk \in BOOLEAN :
          Admit(tok) /\ Login(tok, e, p, dbOk)
    \/ \E tok \in {0} \cup DOMAIN sessions : Logout(tok)

SpecIdentity == InitAccounts /\ [][NextIdentity]_vars

\* every operation
Init == InitAccounts
Next ==
    \/ NextAccounts \/ NextSessions \/ NextRateLimit
    \/ NextProjects \/ NextConcurrent \/ NextOwnership \/ NextActivity \/ NextErrors \/ NextIdentity
Spec == Init /\ [][Next]_vars

(* ------------------------------- claims ------------------------------- *)
\* the session table binds the token to the email: the record is within its
\* inactivity window and holds the email as user_email
Binds(table, tok, email) ==
    /\ tok \in DOMAIN table
    /\ now < table[tok].expiry
    /\ table[tok].data.user_email = Some(email)

\* the session the token names is live and holds a principal
CarriesPrincipal(tok) ==
    /\ tok \in DOMAIN sessions
    /\ now < sessions[tok].expiry
    /\ sessions[tok].data.user_email # None

Tokens == 0..MaxTokens

\* what the five project handlers answer to the requests carrying tok
ProjectOutcomes(tok) ==
    {CreateProjectOutcome(tok, project, dbOk) : project \in Bodies, dbOk \in BOOLEAN}
    \cup {ListProjectOutcome(tok, dbOk) : dbOk \in BOOLEAN}
    \cup {GetProjectByIdOutcome(tok, id, dbOk) : id \in ProjectIds, dbOk \in BOOLEAN}
    \cup {UpdateProjectOutcome(tok, id, update, dbOk) :
             id \in ProjectIds, update \in Patches, dbOk \in BOOLEAN}
    \cup {DeleteProjectOutcome(tok, id, dbOk) : id \in ProjectIds, dbOk \in BOOLEAN}

ProjectOps == {"create", "list", "get", "update", "delete"}

\* C1: a create, list, get, update or delete requested on a session without a
\* principal (no cookie, never logged in, logged out or expired) is answered
\* 401 and leaves the projects table as it was.
C1_UnauthenticatedRejected ==
    \A tok \in Tokens :
        ~CarriesPrincipal(tok) =>
            \A o \in ProjectOutcomes(tok) :
                /\ o.resp.op \in ProjectOps
                /\ o.resp.status = UNAUTHORIZED
                /\ o.projects = projects

\* a project exists, the session of token 1 has run out, and a project request
\* has just been answered 401
C1_Witness ==
    /\ resp.op \in ProjectOps
    /\ resp.status = UNAUTHORIZED
    /\ DOMAIN projects # {}
    /\ \E tok \in DOMAIN sessions : ~Live(tok) /\ sessions[tok].data.user_email # None

\* C2: an update of an existing project whose reference timestamp differs from
\* the persisted last_updated fails and leaves the project unchanged.
C2_StaleUpdateRejected ==
    [][\A tok \in Tokens, id \in ProjectIds, update \in Patches :
         (/\ CarriesPrincipal(tok)
          /\ id \in DOMAIN projects
          /\ projects[id].last_updated # Some(update.update_timestamp)
          /\ UpdateProjectHandler(tok, id, update, TRUE)) =>
             (resp'.status # OK /\ projects' = projects)]_vars

\* C4: an authenticated delete of an existing project answers 200 and removes
\* that row and no other; a delete of an id no project has (a repeated delete
\* included) fails, with ProjectNotFound when the statement ran, and changes no
\* project; get_project_by_id finds nothing under an id no project has.
C4_Delete ==
    /\ \A tok \in Tokens, id \in ProjectIds, dbOk \in BOOLEAN :
          CarriesPrincipal(tok) =>
              LET o == DeleteProjectOutcome(tok, id, dbOk)
              IN  /\ (dbOk /\ id \in DOMAIN projects) =>
                        /\ o.resp.status = OK
                        /\ DOMAIN o.projects = DOMAIN projects \ {id}
                        /\ \A i \in DOMAIN o.projects : o.projects[i] = projects[i]
                  /\ id \notin DOMAIN projects =>
                        /\ o.resp.status # OK
                        /\ dbOk => o.resp.kind = "ProjectNotFound"
                        /\ o.projects = projects
    /\ \A tok \in Tokens, id \in ProjectIds \ DOMAIN projects :
          /\ GetProjectById(id, TRUE) # "Ok"
          /\ CarriesPrincipal(tok) =>
                GetProjectByIdOutcome(tok, id, TRUE).resp.kind = "ProjectNotFound"

\* project 1 was created and deleted, and a further delete was answered
\* ProjectNotFound
C4_Witness ==
    /\ resp.op = "delete"
    /\ resp.kind = "ProjectNotFound"
    /\ nextId > 1
    /\ 1 \notin DOMAIN projects

\* the token of the session a response leaves the client with
SessionIdAfter(tok) == IF Live(tok) THEN tok ELSE Cardinality(DOMAIN sessions) + 1

\* the account table records that email registered with this password
RegisteredWith(email, password) ==
    \E s \in Salts : AccountRow(email, Argon2Hash(password, s)) \in accounts

HasAccount(email) == \E r \in accounts : r.username = email

\* C5: registering an email that already has an account is answered with a
\* bad request and leaves the accounts table unchanged.
C5_DuplicateIsBadRequest ==
    [][\A e \in Emails, p \in Passwords, s \in Salts :
         ((\E q \in Passwords : RegisteredWith(e, q)) /\ AddUser(e, p, s, TRUE)) =>
             (resp'.status = BAD_REQUEST /\ accounts' = accounts)]_vars

\* C6: when the lookup runs, authenticate_user answers UserNotFound exactly for
\* an email without account; for an email with an account it answers
\* MalformedStoreHash when the stored text is no hash, IncorrectPassword when
\* the stored hash was made from another password, and Ok only when the stored
\* hash was made from this password.
C6_AuthenticateKinds ==
    \A e \in Emails, p \in Passwords :
        LET kind == AuthenticateUser(e, p, TRUE)
            stored == {r.password : r \in {r \in accounts : r.username = e}}
        IN  /\ (kind = "UserNotFound") <=> (stored = {})
            /\ (stored # {} /\ stored \subseteq CorruptPasswords \ {None})
                  => kind = "MalformedStoreHash"
            /\ (\E q \in Passwords \ {p}, s \in Salts : stored = {Argon2Hash(q, s)})
                  => kind = "IncorrectPassword"
            /\ (kind = "Ok") <=> (\E s \in Salts : stored = {Argon2Hash(p, s)})

\* a login against a registered account was refused for its password, and an
\* account with an unparsable hash is stored as well
C6_Witness ==
    /\ resp.op = "login"
    /\ resp.kind = "IncorrectPassword"
    /\ \E r \in accounts : r.password \in CorruptPasswords \ {None}
    /\ \E r \in accounts : r.password \notin CorruptPasswords

\* C7: a signup answered 201 stores the account; a login with the email and
\* password of a stored account is answered 200 and leaves the session bound
\* to that email; require_login accepts the requests on a session so bound.
C7_SignupThenLogin ==
    /\ \A e \in Emails, p \in Passwords, s \in Salts, dbOk \in BOOLEAN :
          LET o == AddUserOutcome(e, p, s, dbOk)
          IN  o.resp.status = CREATED =>
                  AccountRow(e, Argon2Hash(p, s)) \in o.accounts
    /\ \A tok \in Tokens, e \in Emails, p \in Passwords :
          RegisteredWith(e, p) =>
              LET o == LoginOutcome(tok, e, p, TRUE)
              IN  /\ o.resp.status = OK
                  /\ Binds(o.sessions, SessionIdAfter(tok), e)
    /\ \A tok \in Tokens, e \in Emails :
          Binds(sessions, tok, e) =>
              /\ Authed(tok)
              /\ ListProjectOutcome(tok, TRUE).resp.status = OK

\* a project request was accepted on a session, which takes a signup and a login
C7_Witness ==
    /\ resp.op = "list"
    /\ resp.status = OK
    /\ \E e \in Emails, p \in Passwords : RegisteredWith(e, p)
    /\ \E tok \in DOMAIN sessions : CarriesPrincipal(tok)

\* the token's session record has run out: a full inactivity window has passed
\* since the last request that saved it
RunOut(tok) == tok \in DOMAIN sessions /\ now >= sessions[tok].expiry

\* C8: the session a successful login leaves is bound to the principal, and a
\* session so bound is read back with that principal; a session whose
\* inactivity window has passed is read as absent and a project request on it
\* is answered 401; its record is never revived.
C8_SessionExpiry ==
    /\ [](/\ \A tok \in Tokens, e \in Emails, p \in Passwords, dbOk \in BOOLEAN :
               LET o == LoginOutcome(tok, e, p, dbOk)
               IN  o.resp.status = OK => Binds(o.sessions, SessionIdAfter(tok), e)
          /\ \A t \in Tokens, e \in Emails :
               Binds(sessions, t, e) => RequireLogin(LoadSession(t)) = Some(e)
          /\ \A t \in Tokens :
               RunOut(t) =>
                   /\ ~Authed(t)
                   /\ LoadSession(t).data = EmptyData
                   /\ \A dbOk \in BOOLEAN :
                         ListProjectOutcome(t, dbOk).resp.status = UNAUTHORIZED)
    /\ [][\A t \in Tokens : RunOut(t) => (RunOut(t)' /\ sessions'[t] = sessions[t])]_vars

\* a logged-in session has run out, a project request has since been answered
\* 401, and a newer session exists
C8_Witness ==
    /\ resp.op = "list"
    /\ resp.status = UNAUTHORIZED
    /\ \E t \in DOMAIN sessions :
          /\ RunOut(t)
          /\ sessions[t].data.user_email # None
          /\ \E u \in DOMAIN sessions : u > t /\ Live(u)

\* C9: a logout is answered 200 whatever the session holds and leaves the
\* session without principal; a session gets a principal only through a login
\* answered 200.
C9_Logout ==
    [][/\ \A tok \in Tokens :
            Logout(tok) =>
                /\ resp'.status = OK
                /\ ~CarriesPrincipal(tok)'
                /\ ~Authed(tok)'
                /\ Live(tok) => sessions'[tok].data = EmptyData
       /\ \A t \in Tokens :
            (~CarriesPrincipal(t) /\ CarriesPrincipal(t)') =>
                (resp'.op = "login" /\ resp'.status = OK)
      ]_vars

\* a logout has just cleared a live session
C9_Witness ==
    /\ resp.op = "logout"
    /\ \E t \in DOMAIN sessions : Live(t) /\ sessions[t].data = EmptyData

\* the attempt ceiling of the rate limiter
AttemptCeiling == 1

\* C10: a login attempt on a session that has already counted more attempts
\* than the ceiling is rejected with 429.
C10_RateLimited ==
    [][\A tok \in Tokens, e \in Emails, p \in Passwords :
         (/\ Live(tok)
          /\ sessions[tok].data.counter > AttemptCeiling
          /\ Login(tok, e, p, TRUE)) => resp'.status = 429]_vars

\* C3: of two different update requests for one project that carry the same
\* reference timestamp, the version both observed, and whose handlers overlap,
\* at most one succeeds.
C3_NoLostUpdate ==
    \A r1 \in DOMAIN completed, r2 \in DOMAIN completed :
        (/\ r1 # r2
         /\ r2 \in completed[r1].overlapped
         /\ completed[r1].id = completed[r2].id
         /\ completed[r1].observed = Some(completed[r1].update.update_timestamp)
         /\ completed[r2].observed = completed[r1].observed
         /\ completed[r2].update.update_timestamp = completed[r1].update.update_timestamp
         /\ completed[r2].update.name # completed[r1].update.name)
            => ~(completed[r1].kind = "Ok" /\ completed[r2].kind = "Ok")

\* C11: a project created on a session bound to a principal is stored with
\* that principal as owner, whatever identity the request body names, and with
\* created_at equal to last_updated.
C11_OwnerIsPrincipal ==
    [][\A tok \in Tokens, e \in Emails, project \in DescribedBodies :
         (Binds(sessions, tok, e) /\ CreateProjectHandler(tok, project, TRUE)) =>
             /\ nextId \in DOMAIN projects'
             /\ projects'[nextId].user_email = e
             /\ projects'[nextId].created_at = projects'[nextId].last_updated]_vars

\* a step of a handler whose database statement fails, on a request carrying tok
PersistenceFailure(tok) ==
    \/ \E e \in Emails, p \in Passwords : Login(tok, e, p, FALSE)
    \/ \E project \in Bodies : CreateProjectHandler(tok, project, FALSE)
    \/ ListProjectHandler(tok, FALSE)
    \/ \E id \in ProjectIds : GetProjectByIdHandler(tok, id, FALSE)
    \/ \E id \in ProjectIds, update \in Patches : UpdateProjectHandler(tok, id, update, FALSE)
    \/ \E id \in ProjectIds : DeleteProjectHandler(tok, id, FALSE)

\* C12: a response of kind UserNotFound or IncorrectPassword (the kind of an
\* unauthenticated request too) has status 401; one of kind ProjectNotFound,
\* InvalidInput or MalformedStoreHash has status 400; and a request whose
\* database statement fails on a logged-in session is answered 500, never 400.
C12_StatusByKind ==
    [][/\ resp'.kind \in {"UserNotFound", "IncorrectPassword"} =>
             resp'.status = UNAUTHORIZED
       /\ resp'.kind \in {"ProjectNotFound", "InvalidInput", "MalformedStoreHash"} =>
             resp'.status = BAD_REQUEST
       /\ \A tok \in Tokens :
             (CarriesPrincipal(tok) /\ PersistenceFailure(tok)) =>
                 resp'.status = INTERNAL_SERVER_ERROR
      ]_vars

\* C13: an update or delete requested on a session bound to a principal, of a
\* project owned by another principal, leaves that project as it was.
C13_OwnerScoped ==
    [][\A tok \in Tokens, e \in Emails, id \in ProjectIds :
         (/\ Binds(sessions, tok, e)
          /\ id \in DOMAIN projects
          /\ projects[id].user_email # e
          /\ \/ \E update \in DescribedPatches : UpdateProjectHandler(tok, id, update, TRUE)
             \/ DeleteProjectHandler(tok, id, TRUE)) =>
             (id \in DOMAIN projects' /\ projects'[id] = projects[id])]_vars

\* C14: every project has last_updated >= created_at, and an update answered
\* 200 leaves the project's last_updated strictly later than it was.
C14_LastUpdatedAdvances ==
    /\ [](\A id \in DOMAIN projects :
             projects[id].last_updated[1] >= projects[id].created_at[1])
    /\ [][\A tok \in Tokens, id \in ProjectIds, update \in DescribedPatches :
            (UpdateProjectHandler(tok, id, update, TRUE) /\ resp'.status = OK) =>
                projects'[id].last_updated[1] > projects[id].last_updated[1]]_vars

\* C15: an update answered 200 keeps the persisted name and description when
\* the patch does not carry them, and no step changes the owner or created_at
\* of a project that stays in the table.
C15_UpdateFrame ==
    [][/\ \A tok \in Tokens, id \in ProjectIds, update \in DescribedPatches :
            (UpdateProjectHandler(tok, id, update, TRUE) /\ resp'.status = OK) =>
                /\ update.name = None => projects'[id].name = projects[id].name
                /\ update.description = None =>
                      projects'[id].description = projects[id].description
       /\ \A id \in DOMAIN projects \cap DOMAIN projects' :
            /\ projects'[id].user_email = projects[id].user_email
            /\ projects'[id].created_at = projects[id].created_at
      ]_vars

\* a step of any handler answering a request that carries tok as its cookie
RequestCarrying(tok) ==
    \/ \E e \in Emails, p \in Passwords, dbOk \in BOOLEAN : Login(tok, e, p, dbOk)
    \/ Logout(tok)
    \/ \E dbOk \in BOOLEAN : ListProjectHandler(tok, dbOk)
    \/ \E id \in ProjectIds, dbOk \in BOOLEAN : GetProjectByIdHandler(tok, id, dbOk)
    \/ \E id \in ProjectIds, dbOk \in BOOLEAN : DeleteProjectHandler(tok, id, dbOk)
    \/ \E dbOk \in BOOLEAN : HealthCheck(dbOk)

\* C16: every request carrying a live, logged-in session leaves that session live with a
\* full inactivity window ahead, so that requests less than a window apart
\* keep it from ever expiring.
C16_ActivityRefreshes ==
    [][\A tok \in Tokens :
         (CarriesPrincipal(tok) /\ RequestCarrying(tok)) =>
             /\ tok \in DOMAIN sessions'
             /\ sessions'[tok].expiry = now + InactivitySeconds]_vars

\* C17: every rate-limit check that completes on a live session leaves the
\* stored counter one higher than it was just before, whatever other requests
\* on that session ran between its read and its write; n checks then add n.
C17_NoLostIncrement ==
    [][\A rid \in DOMAIN inflight, dbOk \in BOOLEAN :
         (/\ ExecuteUpdate(rid, dbOk)
          /\ resp'.status = OK
          /\ Live(inflight[rid].sess.sid)) =>
             sessions'[inflight[rid].sess.sid].data.counter
                 = sessions[inflight[rid].sess.sid].data.counter + 1]_vars

\* a step of one of the five project handlers on a request carrying tok
ProjectRequest(tok) ==
    \/ \E project \in Bodies, dbOk \in BOOLEAN : CreateProjectHandler(tok, project, dbOk)
    \/ \E dbOk \in BOOLEAN : ListProjectHandler(tok, dbOk)
    \/ \E id \in ProjectIds, dbOk \in BOOLEAN : GetProjectByIdHandler(tok, id, dbOk)
    \/ \E id \in ProjectIds, update \in Patches, dbOk \in BOOLEAN :
          UpdateProjectHandler(tok, id, update, dbOk)
    \/ \E id \in ProjectIds, dbOk \in BOOLEAN : DeleteProjectHandler(tok, id, dbOk)

\* C18: a create, list, get, update or delete request on a live session leaves
\* the session's rate-limit counter as it was and is not answered 429.
C18_LimiterOnlyOnAuth ==
    [][\A tok \in Tokens :
         (Live(tok) /\ ProjectRequest(tok)) =>
             /\ sessions'[tok].data.counter = sessions[tok].data.counter
             /\ resp'.status # 429]_vars

\* C19: two failed requests whose errors are of the same kind at the response
\* boundary are sent the same status and the same body.
C19_ResponseByKindOnly ==
    \A r1 \in DOMAIN completed, r2 \in DOMAIN completed :
        completed[r1].kind = completed[r2].kind
            => completed[r1].response = completed[r2].response

\* the principal a session table holds under a token, None without record
PrincipalIn(table, t) == IF t \in DOMAIN table THEN table[t].data.user_email ELSE None

\* C20: a login is answered 200 only for an email with the password it
\* registered, and then leaves the session bound to that email; a login
\* answered otherwise leaves the principal of every session as it was; a signup
\* leaves the sessions as they were; and the principal of a session changes to
\* an email in no step but a login answered 200.
C20_PrincipalOnlyByLogin ==
    /\ [](/\ \A tok \in Tokens, e \in Emails, p \in Passwords, dbOk \in BOOLEAN :
               LET o == LoginOutcome(tok, e, p, dbOk)
               IN  IF o.resp.status = OK
                   THEN /\ RegisteredWith(e, p)
                        /\ Binds(o.sessions, SessionIdAfter(tok), e)
                   ELSE \A t \in Tokens : PrincipalIn(o.sessions, t) = PrincipalIn(sessions, t)
          /\ \A e \in Emails \cup BadEmails, p \in Passwords \cup ShortPasswords,
                s \in Salts, dbOk \in BOOLEAN :
               AddUserOutcome(e, p, s, dbOk).sessions = sessions)
    /\ [][\A t \in Tokens :
            (PrincipalIn(sessions, t)' # PrincipalIn(sessions, t)
                /\ PrincipalIn(sessions, t)' # None) =>
                (resp'.op = "login" /\ resp'.status = OK)]_vars

\* a login with a wrong password has just been refused on the one session there
\* is, which was logged in before and still carries its principal
C20_Witness ==
    /\ resp.op = "login"
    /\ resp.kind = "IncorrectPassword"
    /\ DOMAIN sessions = {1}
    /\ CarriesPrincipal(1)
    /\ sessions[1].data.counter >= 2
====
